---- MODULE Spec2Model ----
(***************************************************************************)
(* E-commerce Order Processor (src/app.py): the Streamlit script main(),   *)
(* the product database, and the Shopee / Tokopedia / TikTok processors.   *)
(*                                                                         *)
(* Text is a sequence of one-character strings, so that cleaning, regex    *)
(* search and lexicographic sorting are computed character by character.   *)
(* A spreadsheet cell is a record: [t |-> "str", s |-> text],              *)
(* [t |-> "num", v |-> integer] or [t |-> "nan"] (a blank cell read with   *)
(* pandas' default NA filter).                                             *)
(***************************************************************************)
EXTENDS Integers, Sequences, FiniteSets, Bags, TLC

VARIABLES
    files,            \* st.session_state.files: the held batch, in insertion order
    database,         \* ProductDatabase.data of the current script run
    load_failed,      \* the current run's ProductDatabase() took the except branch
    clicked,          \* the button whose click started the current script run
    notice,           \* what "Add File" reported in the current script run
    file_results,     \* per file of the batch: what process_file returned (the file tabs)
    summary_df,       \* Summary tab: "Summary of All Valid Products"
    invalid_summary,  \* Summary tab: "Summary of All Invalid Products"
    joined_valid_df,  \* Joined Details tab: valid rows with their file name
    joined_invalid_df,\* Joined Details tab: invalid rows with their file name
    lines_A,          \* aggregation study: first list of valid rows
    lines_B,          \* aggregation study: second list of valid rows
    agg,               \* aggregation study: the results computed from lines_A, lines_B
    session,           \* session study: what the user has done so far (bookkeeping)
    order_text,        \* parsing study: the text of one cell of Shopee's column H
    parsed_products    \* parsing study: what parse_product_info returned for it

vars == <<files, database, load_failed, clicked, notice, file_results, summary_df,
          invalid_summary, joined_valid_df, joined_invalid_df,
          lines_A, lines_B, agg, session, order_text, parsed_products>>

(***************************************************************************)
(* Bounds of the model.                                                    *)
(***************************************************************************)
MaxFiles == 2
MaxRows == 2
MaxItems == 2

(***************************************************************************)
(* Text                                                                    *)
(***************************************************************************)
Digits == <<"0", "1", "2", "3", "4", "5", "6", "7", "8", "9">>

Uppers == <<"A", "B", "C", "D", "E", "F", "G", "H", "I", "J", "K", "L", "M",
            "N", "O", "P", "Q", "R", "S", "T", "U", "V", "W", "X", "Y", "Z">>

Lowers == <<"a", "b", "c", "d", "e", "f", "g", "h", "i", "j", "k", "l", "m",
            "n", "o", "p", "q", "r", "s", "t", "u", "v", "w", "x", "y", "z">>

IndexIn(c, tbl) == CHOOSE i \in 1..Len(tbl) : tbl[i] = c

IsIn(c, tbl) == \E i \in 1..Len(tbl) : tbl[i] = c

IsDigit(c) == IsIn(c, Digits)

\* The code point of a character (Python compares str by code point).
CodePoint(c) ==
    IF IsIn(c, Digits) THEN 47 + IndexIn(c, Digits)
    ELSE IF IsIn(c, Uppers) THEN 64 + IndexIn(c, Uppers)
    ELSE IF IsIn(c, Lowers) THEN 96 + IndexIn(c, Lowers)
    ELSE CASE c = " " -> 32
           [] c = "'" -> 39
           [] c = "-" -> 45
           [] c = "." -> 46
           [] c = ":" -> 58
           [] c = ";" -> 59
           [] c = "[" -> 91
           [] c = "]" -> 93
           [] c = "_" -> 95

Chars ==
    {Digits[i] : i \in 1..Len(Digits)} \cup {Uppers[i] : i \in 1..Len(Uppers)}
    \cup {Lowers[i] : i \in 1..Len(Lowers)}
    \cup {" ", "'", "-", ".", ":", ";", "[", "]", "_"}

OrdTable == [c \in Chars |-> CodePoint(c)]

Ord(c) == OrdTable[c]

\* Python's str < str.
StrLess(a, b) ==
    \E i \in 1..Len(b) :
        /\ \A j \in 1..(i - 1) : j <= Len(a) /\ a[j] = b[j]
        /\ i > Len(a) \/ Ord(a[i]) < Ord(b[i])

\* The least and the greatest element of a non-empty set of numbers
Min(S) == CHOOSE x \in S : \A y \in S : x <= y

Max(S) == CHOOSE x \in S : \A y \in S : x >= y

\* str.strip(c) for a single character c: s without its leading and trailing c
StripChar(s, c) ==
    LET keep == {i \in 1..Len(s) : s[i] # c}
    IN  IF keep = {} THEN <<>> ELSE SubSeq(s, Min(keep), Max(keep))

\* str.strip(): the whitespace of these texts is the space
Strip(s) == StripChar(s, " ")

\* pat occurs in s starting at position i
MatchAt(s, i, pat) ==
    /\ i >= 1
    /\ i + Len(pat) - 1 <= Len(s)
    /\ \A k \in 1..Len(pat) : s[i + k - 1] = pat[k]

\* pat in s
Contains(s, pat) == \E i \in 1..(Len(s) + 1) : MatchAt(s, i, pat)

\* The first position >= i of s that holds c, or Len(s) + 1.
FindChar(s, i, c) == Min({j \in i..Len(s) : s[j] = c} \cup {Len(s) + 1})

\* The end (exclusive) of the longest run of digits of s that starts at i.
DigitsEnd(s, i) == Min({j \in i..Len(s) : ~IsDigit(s[j])} \cup {Len(s) + 1})

\* int() of a non-empty string of digits
RECURSIVE ParseInt(_)
ParseInt(s) ==
    IF s = <<>> THEN 0
    ELSE 10 * ParseInt(SubSeq(s, 1, Len(s) - 1)) + (IndexIn(s[Len(s)], Digits) - 1)

(***************************************************************************)
(* Cells                                                                   *)
(***************************************************************************)
StrCell(s) == [t |-> "str", s |-> s]

NumCell(v) == [t |-> "num", v |-> v]

NaN == [t |-> "nan"]

IsStr(c) == c.t = "str"

IsNum(c) == c.t = "num"

IsNaN(c) == c.t = "nan"

\* str() of a non-negative whole number
RECURSIVE NatToText(_)
NatToText(n) ==
    IF n < 10 THEN <<Digits[n + 1]>>
    ELSE NatToText(n \div 10) \o <<Digits[(n % 10) + 1]>>

\* str() of a cell value
Str(c) ==
    IF IsStr(c) THEN c.s
    ELSE IF IsNaN(c) THEN <<"n", "a", "n">>
    ELSE IF c.v < 0 THEN <<"-">> \o NatToText(-c.v)
    ELSE NatToText(c.v)

(***************************************************************************)
(* ProductDatabase                                                         *)
(***************************************************************************)
Unknown == <<"U", "n", "k", "n", "o", "w", "n">>

\* The first two columns of the hosted workbook dcw_products.xlsx: SKU, name.
RemoteSheet ==
    << <<StrCell(<<"A", "1">>), <<"W", "i", "d", "g", "e", "t">> >>,
       <<StrCell(<<"B", "2">>), <<"G", "a", "d", "g", "e", "t">> >>,
       <<NumCell(77),           <<"B", "o", "l", "t">> >> >>

\* dict(zip(df.iloc[:, 0].astype(str), df.iloc[:, 1])): a later row wins.
BuildData(sheet) ==
    [k \in {Str(sheet[i][1]) : i \in 1..Len(sheet)} |->
        LET last == CHOOSE i \in 1..Len(sheet) :
                        /\ Str(sheet[i][1]) = k
                        /\ \A j \in (i + 1)..Len(sheet) : Str(sheet[j][1]) # k
        IN  sheet[last][2]]

EmptyData == [k \in {} |-> <<>>]

\* A constructor whose except branch keeps a stocked catalog
ProductDatabaseNeverEmpty(ok) == BuildData(RemoteSheet)

\* ProductDatabase.__init__: ok is whether pd.read_excel of the URL returned.
ProductDatabase(ok) == IF ok THEN BuildData(RemoteSheet) ELSE EmptyData

get_product_name(data, sku) == IF sku \in DOMAIN data THEN data[sku] ELSE Unknown

\* A validity test that accepts any SKU that is not empty
is_valid_sku_nonempty(data, sku) == sku # <<>>

is_valid_sku(data, sku) == sku \in DOMAIN data

(***************************************************************************)
(* Sorting and grouping (pandas)                                           *)
(***************************************************************************)
\* Order of the 'Nama Produk' cells of an invalid frame: NaN last.
NameCellLess(a, b) ==
    IF IsNaN(a) THEN FALSE
    ELSE IF IsNaN(b) THEN TRUE
    ELSE IF IsStr(a) /\ IsStr(b) THEN StrLess(a.s, b.s)
    ELSE IF IsNum(a) /\ IsNum(b) THEN a.v < b.v
    ELSE FALSE

\* Sorting a column that holds both text and numbers raises TypeError.
SortRaises(rows) ==
    /\ \E i \in 1..Len(rows) : IsStr(rows[i].Nama_Produk)
    /\ \E i \in 1..Len(rows) : IsNum(rows[i].Nama_Produk)

SkuLess(a, b) == StrLess(a.Kode_SKU, b.Kode_SKU)

InvalidLess(a, b) == NameCellLess(a.Nama_Produk, b.Nama_Produk)

KeyLess(a, b) ==
    \/ StrLess(a.Kode_SKU, b.Kode_SKU)
    \/ a.Kode_SKU = b.Kode_SKU /\ StrLess(a.Nama_Produk, b.Nama_Produk)

\* The order of two rows under the sort column(s) by.
RowLess(by, a, b) ==
    CASE by = "Kode SKU" -> SkuLess(a, b)
      [] by = "Nama Produk" -> InvalidLess(a, b)
      [] by = "Kode SKU, Nama Produk" -> KeyLess(a, b)

\* Insert row r into the sorted sequence s after every row not greater than it.
RECURSIVE InsertSorted(_, _, _)
InsertSorted(s, r, by) ==
    IF s = <<>> THEN <<r>>
    ELSE IF RowLess(by, r, Head(s)) THEN <<r>> \o s
    ELSE <<Head(s)>> \o InsertSorted(Tail(s), r, by)

\* DataFrame.sort_values(by): ascending; rows with equal keys keep their order
\* (numpy sorts a partition of at most 16 elements by insertion).
RECURSIVE SortRows(_, _)
SortRows(s, by) ==
    IF s = <<>> THEN <<>>
    ELSE InsertSorted(SortRows(SubSeq(s, 1, Len(s) - 1), by), s[Len(s)], by)

\* valid_df.sort_values('Kode SKU')
SortValid(rows) == SortRows(rows, "Kode SKU")

\* invalid_df.sort_values('Nama Produk')
SortInvalid(rows) == SortRows(rows, "Nama Produk")

\* Series.sum(): NaN is skipped.
QtyValue(q) == IF IsNum(q) THEN q.v ELSE 0

\* A total that counts the rows instead of adding their quantities
CountQty(rows) == Len(rows)

RECURSIVE SumQty(_)
SumQty(rows) ==
    IF rows = <<>> THEN 0 ELSE QtyValue(Head(rows).Jumlah) + SumQty(Tail(rows))

SameKey(a, b) == a.Kode_SKU = b.Kode_SKU /\ a.Nama_Produk = b.Nama_Produk

\* The rows of s whose key is the key of r
RowsOfKey(s, r) == SelectSeq(s, LAMBDA x : SameKey(x, r))

\* One row per key, in order of first appearance, carrying the group's total.
RECURSIVE GroupTotals(_, _)
GroupTotals(s, all) ==
    IF s = <<>> THEN <<>>
    ELSE <<[Kode_SKU |-> Head(s).Kode_SKU, Nama_Produk |-> Head(s).Nama_Produk,
            Jumlah |-> NumCell(SumQty(RowsOfKey(all, Head(s))))]>>
         \o GroupTotals(SelectSeq(Tail(s), LAMBDA x : ~SameKey(x, Head(s))), all)

\* df.groupby(['Kode SKU', 'Nama Produk'])['Jumlah'].sum().reset_index():
\* the groups come out sorted by key.
GroupBySum(rows) == SortRows(GroupTotals(rows, rows), "Kode SKU, Nama Produk")

(***************************************************************************)
(* Uploaded workbooks.  A file's bytes are either not a readable workbook  *)
(* ([ok |-> FALSE]) or a sheet: [ok |-> TRUE, rows |-> the sheet's rows],  *)
(* a row being a record of the cells of the columns the platform's         *)
(* processor reads, named by column letter (iloc 1 = B, 2 = C, 4 = E,     *)
(* 6 = G, 7 = H, 8 = I, 9 = J).                                           *)
(***************************************************************************)
Platforms == {"Shopee", "Tokopedia", "TikTok"}

\* The processor's except branch: st.error and two empty frames.
Failed == [valid_df |-> <<>>, invalid_df |-> <<>>, error |-> TRUE]

\* An except branch that returns the valid rows collected before the error
FramesKeepValid(valid_products, invalid_products) ==
    IF SortRaises(invalid_products)
    THEN [valid_df |-> SortValid(valid_products), invalid_df |-> <<>>, error |-> TRUE]
    ELSE [valid_df |-> SortValid(valid_products),
          invalid_df |-> SortInvalid(invalid_products),
          error |-> FALSE]

\* The frames process_file builds from the classified rows, each sorted;
\* sorting the invalid frame raises when its names mix text and numbers.
Frames(valid_products, invalid_products) ==
    IF SortRaises(invalid_products) THEN Failed
    ELSE [valid_df |-> SortValid(valid_products),
          invalid_df |-> SortInvalid(invalid_products),
          error |-> FALSE]

(***************************************************************************)
(* ShopeeProcessor                                                         *)
(***************************************************************************)
LblNamaProduk == <<"N", "a", "m", "a", " ", "P", "r", "o", "d", "u", "k", ":">>

LblNamaVariasi == <<"N", "a", "m", "a", " ", "V", "a", "r", "i", "a", "s", "i", ":">>

LblJumlah == <<"J", "u", "m", "l", "a", "h", ":", " ">>

LblSku == <<"N", "o", "m", "o", "r", " ", "R", "e", "f", "e", "r", "e", "n", "s", "i",
            " ", "S", "K", "U", ":">>

Marker1 == <<"[", "1", "]">>

\* A match of \[\d+\] starts at i: the position after it, else 0.
MarkerEnd(s, i) ==
    IF i <= Len(s) /\ s[i] = "[" /\ DigitsEnd(s, i + 1) > i + 1
       /\ DigitsEnd(s, i + 1) <= Len(s) /\ s[DigitsEnd(s, i + 1)] = "]"
    THEN DigitsEnd(s, i + 1) + 1
    ELSE 0

\* re.split(r'\[\d+\]', text): the pieces before, between and after the
\* matches (a match holds one "[", so no two matches overlap).
SplitMarkers(s) ==
    LET starts == {i \in 1..Len(s) : MarkerEnd(s, i) # 0}
        nth(k) == CHOOSE i \in starts : Cardinality({j \in starts : j < i}) = k - 1
    IN  [k \in 1..(Cardinality(starts) + 1) |->
            SubSeq(s,
                   IF k = 1 THEN 1 ELSE MarkerEnd(s, nth(k - 1)),
                   IF k = Cardinality(starts) + 1 THEN Len(s) ELSE nth(k) - 1)]

RECURSIVE StripNonEmpty(_)
StripNonEmpty(items) ==
    IF items = <<>> THEN <<>>
    ELSE IF Strip(Head(items)) # <<>>
         THEN <<Strip(Head(items))>> \o StripNonEmpty(Tail(items))
         ELSE StripNonEmpty(Tail(items))

\* lines 48-52
SplitItems(text) ==
    IF Contains(text, Marker1) THEN StripNonEmpty(SplitMarkers(text))
    ELSE <<text>>

\* re.search(label + r'([^;]+)', item): group 1, or no match.
SearchField(item, label) ==
    LET at == {p \in 1..Len(item) :
                   /\ MatchAt(item, p, label)
                   /\ p + Len(label) <= Len(item)
                   /\ item[p + Len(label)] # ";"}
    IN  IF at = {} THEN [found |-> FALSE, text |-> <<>>]
        ELSE LET from == Min(at) + Len(label)
             IN  [found |-> TRUE,
                  text |-> SubSeq(item, from, FindChar(item, from, ";") - 1)]

\* re.search(r'Jumlah: (\d+)', item)
SearchJumlah(item) ==
    LET at == {p \in 1..Len(item) :
                   /\ MatchAt(item, p, LblJumlah)
                   /\ DigitsEnd(item, p + Len(LblJumlah)) > p + Len(LblJumlah)}
    IN  IF at = {} THEN [found |-> FALSE, text |-> <<>>]
        ELSE LET from == Min(at) + Len(LblJumlah)
             IN  [found |-> TRUE, text |-> SubSeq(item, from, DigitsEnd(item, from) - 1)]

\* re.search(r'Nomor Referensi SKU: ?([^;]*);', item)
SearchSku(item) ==
    LET at == {p \in 1..Len(item) :
                   /\ MatchAt(item, p, LblSku)
                   /\ FindChar(item, p + Len(LblSku), ";") <= Len(item)}
    IN  IF at = {} THEN [found |-> FALSE, text |-> <<>>]
        ELSE LET after == Min(at) + Len(LblSku)
                 from == IF item[after] = " " THEN after + 1 ELSE after
             IN  [found |-> TRUE,
                  text |-> SubSeq(item, from, FindChar(item, from, ";") - 1)]

\* lines 55-68: the products one item contributes (none or one)
ParseItem(item) ==
    LET nama_produk_match == SearchField(item, LblNamaProduk)
        nama_variasi_match == SearchField(item, LblNamaVariasi)
        jumlah_match == SearchJumlah(item)
        sku_match == SearchSku(item)
    IN  IF nama_produk_match.found /\ nama_variasi_match.found /\ jumlah_match.found
        THEN <<[nama_produk |-> Strip(nama_produk_match.text),
                nama_variasi |-> Strip(nama_variasi_match.text),
                jumlah |-> ParseInt(jumlah_match.text),
                sku |-> IF sku_match.found THEN Strip(sku_match.text) ELSE <<>>]>>
        ELSE <<>>

RECURSIVE ParseItems(_)
ParseItems(items) ==
    IF items = <<>> THEN <<>> ELSE ParseItem(Head(items)) \o ParseItems(Tail(items))

parse_product_info(text) == ParseItems(SplitItems(text))

\* The products of the text cells of column H below the header row.
RECURSIVE ShopeeProducts(_)
ShopeeProducts(rows) ==
    IF rows = <<>> THEN <<>>
    ELSE (IF IsStr(Head(rows).H) THEN parse_product_info(Head(rows).H.s) ELSE <<>>)
         \o ShopeeProducts(Tail(rows))

ShopeeRawLines(file) == ShopeeProducts(SubSeq(file.rows, 2, Len(file.rows)))

\* line 88
ShopeeIsInvalid(data, product) ==
    product.sku = <<>> \/ ~is_valid_sku(data, product.sku)

ShopeeValidRow(data, product) ==
    [Kode_SKU |-> product.sku,
     Nama_Produk |-> get_product_name(data, product.sku),
     Jumlah |-> NumCell(product.jumlah)]

ShopeeInvalidRow(product) ==
    [Nama_Produk |-> StrCell(product.nama_produk),
     Nama_Variasi |-> StrCell(product.nama_variasi),
     Jumlah |-> NumCell(product.jumlah)]

RECURSIVE ShopeeValid(_, _)
ShopeeValid(data, products) ==
    IF products = <<>> THEN <<>>
    ELSE (IF ShopeeIsInvalid(data, Head(products)) THEN <<>>
          ELSE <<ShopeeValidRow(data, Head(products))>>)
         \o ShopeeValid(data, Tail(products))

RECURSIVE ShopeeInvalid(_, _)
ShopeeInvalid(data, products) ==
    IF products = <<>> THEN <<>>
    ELSE (IF ShopeeIsInvalid(data, Head(products))
          THEN <<ShopeeInvalidRow(Head(products))>> ELSE <<>>)
         \o ShopeeInvalid(data, Tail(products))

ShopeeProcessFile(file, data) ==
    IF ~file.ok THEN Failed
    ELSE LET products == ShopeeRawLines(file)
         IN  Frames(ShopeeValid(data, products), ShopeeInvalid(data, products))

(***************************************************************************)
(* TokopediaProcessor                                                      *)
(***************************************************************************)
\* pd.read_excel(file, skiprows=3)
TokopediaSkipRows == 3

\* lines 127-129: fillna(''), astype(str).str.strip(), x.split('.')[0]
TokopediaCleanSku(cell) ==
    LET filled == IF IsNaN(cell) THEN <<>> ELSE Str(cell)
        stripped == Strip(filled)
    IN  SubSeq(stripped, 1, FindChar(stripped, 1, ".") - 1)

\* order_data: the rows below the skipped rows and the header row
RECURSIVE TokopediaOrderData(_)
TokopediaOrderData(rows) ==
    IF rows = <<>> THEN <<>>
    ELSE <<[SKU |-> TokopediaCleanSku(Head(rows).B),
            Nama_Produk |-> Head(rows).C,
            Jumlah |-> Head(rows).E]>>
         \o TokopediaOrderData(Tail(rows))

TokopediaRawLines(file) ==
    TokopediaOrderData(SubSeq(file.rows, TokopediaSkipRows + 2, Len(file.rows)))

TokopediaValidRow(data, row) ==
    [Kode_SKU |-> row.SKU,
     Nama_Produk |-> get_product_name(data, row.SKU),
     Jumlah |-> row.Jumlah]

TokopediaInvalidRow(row) ==
    [Nama_Produk |-> row.Nama_Produk, Jumlah |-> row.Jumlah]

RECURSIVE TokopediaValid(_, _)
TokopediaValid(data, order_data) ==
    IF order_data = <<>> THEN <<>>
    ELSE (IF is_valid_sku(data, Head(order_data).SKU)
          THEN <<TokopediaValidRow(data, Head(order_data))>> ELSE <<>>)
         \o TokopediaValid(data, Tail(order_data))

RECURSIVE TokopediaInvalid(_, _)
TokopediaInvalid(data, order_data) ==
    IF order_data = <<>> THEN <<>>
    ELSE (IF is_valid_sku(data, Head(order_data).SKU) THEN <<>>
          ELSE <<TokopediaInvalidRow(Head(order_data))>>)
         \o TokopediaInvalid(data, Tail(order_data))

TokopediaProcessFile(file, data) ==
    IF ~file.ok THEN Failed
    ELSE LET order_data == TokopediaRawLines(file)
         IN  Frames(TokopediaValid(data, order_data), TokopediaInvalid(data, order_data))

(***************************************************************************)
(* TikTokProcessor                                                         *)
(***************************************************************************)
\* data = df.iloc[2:]
TikTokHeadRows == 2

\* line 183: str(x).strip().strip("'")
TikTokCleanSku(cell) == StripChar(Strip(Str(cell)), "'")

\* A text pd.to_numeric reads as a whole number: digits, with an optional sign.
IsNumericText(s) ==
    LET body == IF s # <<>> /\ Head(s) = "-" THEN Tail(s) ELSE s
    IN  body # <<>> /\ \A i \in 1..Len(body) : IsDigit(body[i])

\* line 184: pd.to_numeric(..., errors='coerce').fillna(0)
ToNumericFillZero(cell) ==
    IF IsNum(cell) THEN cell
    ELSE IF IsStr(cell) /\ IsNumericText(cell.s)
         THEN (IF Head(cell.s) = "-" THEN NumCell(-ParseInt(Tail(cell.s)))
               ELSE NumCell(ParseInt(cell.s)))
         ELSE NumCell(0)

\* lines 193-196: int(float(x)), 0 when that raises
IntOfFloat(q) == IF IsNum(q) THEN q.v ELSE 0

RECURSIVE TikTokOrderData(_)
TikTokOrderData(rows) ==
    IF rows = <<>> THEN <<>>
    ELSE <<[SKU |-> TikTokCleanSku(Head(rows).G),
            Nama_Produk |-> Head(rows).H,
            Variasi |-> Head(rows).I,
            Jumlah |-> ToNumericFillZero(Head(rows).J)]>>
         \o TikTokOrderData(Tail(rows))

TikTokRawLines(file) ==
    TikTokOrderData(SubSeq(file.rows, TikTokHeadRows + 1, Len(file.rows)))

TikTokValidRow(data, row) ==
    [Kode_SKU |-> row.SKU,
     Nama_Produk |-> get_product_name(data, row.SKU),
     Jumlah |-> NumCell(IntOfFloat(row.Jumlah))]

TikTokInvalidRow(row) ==
    [Nama_Produk |-> row.Nama_Produk,
     Variasi_Produk |-> row.Variasi,
     Jumlah |-> NumCell(IntOfFloat(row.Jumlah))]

RECURSIVE TikTokValid(_, _)
TikTokValid(data, order_data) ==
    IF order_data = <<>> THEN <<>>
    ELSE (IF is_valid_sku(data, Head(order_data).SKU)
          THEN <<TikTokValidRow(data, Head(order_data))>> ELSE <<>>)
         \o TikTokValid(data, Tail(order_data))

RECURSIVE TikTokInvalid(_, _)
TikTokInvalid(data, order_data) ==
    IF order_data = <<>> THEN <<>>
    ELSE (IF is_valid_sku(data, Head(order_data).SKU) THEN <<>>
          ELSE <<TikTokInvalidRow(Head(order_data))>>)
         \o TikTokInvalid(data, Tail(order_data))

TikTokProcessFile(file, data) ==
    IF ~file.ok THEN Failed
    ELSE LET order_data == TikTokRawLines(file)
         IN  Frames(TikTokValid(data, order_data), TikTokInvalid(data, order_data))

\* processors[platform].process_file(file_obj)
process_file(platform, file, data) ==
    CASE platform = "Shopee" -> ShopeeProcessFile(file, data)
      [] platform = "Tokopedia" -> TokopediaProcessFile(file, data)
      [] platform = "TikTok" -> TikTokProcessFile(file, data)

(***************************************************************************)
(* main(): "Process All Files"                                             *)
(***************************************************************************)
\* datetime.now().strftime('%Y-%m-%d'): one date for the whole run
DateToday == "today"

\* pd.concat of a list of frames
RECURSIVE Concat(_)
Concat(frames) == IF frames = <<>> THEN <<>> ELSE Head(frames) \o Concat(Tail(frames))

\* lines 371: what each file's processor returned, in batch order
FileResults(fs, data) ==
    [i \in 1..Len(fs) |-> process_file(fs[i].platform, fs[i].file, data)]

\* A list of per-file summaries that starts from the summary already shown
\* instead of starting empty
AllValidProductsKept(results) ==
    (IF summary_df # <<>> THEN <<summary_df>> ELSE <<>>)
    \o Concat([i \in 1..Len(results) |->
                 IF results[i].valid_df # <<>>
                 THEN <<GroupBySum(results[i].valid_df)>> ELSE <<>>])

\* lines 349, 373-377: the per-file summaries appended to all_valid_products,
\* which starts empty in every run
RECURSIVE AllValidProducts(_)
AllValidProducts(results) ==
    IF results = <<>> THEN <<>>
    ELSE (IF Head(results).valid_df # <<>>
          THEN <<GroupBySum(Head(results).valid_df)>> ELSE <<>>)
         \o AllValidProducts(Tail(results))

\* lines 386-389: the invalid frames appended to all_invalid_products
RECURSIVE AllInvalidProducts(_)
AllInvalidProducts(results) ==
    IF results = <<>> THEN <<>>
    ELSE (IF Head(results).invalid_df # <<>> THEN <<Head(results).invalid_df>> ELSE <<>>)
         \o AllInvalidProducts(Tail(results))

\* lines 380-382, 392-394: a frame's rows with DateToday and File Name added
Detailed(frame, filename) ==
    [i \in 1..Len(frame) |-> [row |-> frame[i], DateToday |-> DateToday,
                              File_Name |-> filename]]

RECURSIVE AllValidDetails(_, _)
AllValidDetails(fs, results) ==
    IF results = <<>> THEN <<>>
    ELSE (IF Head(results).valid_df # <<>>
          THEN <<Detailed(Head(results).valid_df, Head(fs).filename)>> ELSE <<>>)
         \o AllValidDetails(Tail(fs), Tail(results))

RECURSIVE AllInvalidDetails(_, _)
AllInvalidDetails(fs, results) ==
    IF results = <<>> THEN <<>>
    ELSE (IF Head(results).invalid_df # <<>>
          THEN <<Detailed(Head(results).invalid_df, Head(fs).filename)>> ELSE <<>>)
         \o AllInvalidDetails(Tail(fs), Tail(results))

\* A merge that sorts the concatenated per-file summaries without grouping
\* them again
MergeBatchNoRegroup(all_valid_products) == SortValid(Concat(all_valid_products))

\* lines 409-411: concat, group and sum again, sort by SKU
MergeBatch(all_valid_products) == SortValid(GroupBySum(Concat(all_valid_products)))

\* lines 407-414: the summary shown (no rows when nothing is shown)
SummaryOf(results) ==
    IF AllValidProducts(results) # <<>> THEN MergeBatch(AllValidProducts(results))
    ELSE <<>>

\* lines 463: pd.concat(all_invalid_products)
MergeInvalid(all_invalid_products) == Concat(all_invalid_products)

\* lines 407, 460-464: shown only inside the branch that shows the valid summary
InvalidSummaryOf(results) ==
    IF AllValidProducts(results) # <<>> /\ AllInvalidProducts(results) # <<>>
    THEN MergeInvalid(AllInvalidProducts(results))
    ELSE <<>>

\* lines 471-475
JoinedValidOf(fs, results) == Concat(AllValidDetails(fs, results))

\* lines 497-501
JoinedInvalidOf(fs, results) == Concat(AllInvalidDetails(fs, results))

(***************************************************************************)
(* The held batch                                                          *)
(***************************************************************************)
\* line 320: f"{platform}_{uploaded_file.name}"
FileKey(platform, filename) == platform \o "_" \o filename

Keys(fs) == {fs[i].key : i \in 1..Len(fs)}

\* An add that stores the upload under its key whether or not the key is held
AddEntryOverwrite(fs, platform, filename, bytes) ==
    LET entry == [key |-> platform \o "_" \o filename, file |-> bytes,
                  platform |-> platform, filename |-> filename]
    IN  IF \A i \in 1..Len(fs) : fs[i].key # entry.key THEN Append(fs, entry)
        ELSE [i \in 1..Len(fs) |-> IF fs[i].key = entry.key THEN entry ELSE fs[i]]

\* lines 321-331: the batch after "Add File" (a dict keeps insertion order)
AddEntry(fs, platform, filename, bytes) ==
    IF FileKey(platform, filename) \notin Keys(fs)
    THEN Append(fs, [key |-> FileKey(platform, filename), file |-> bytes,
                     platform |-> platform, filename |-> filename])
    ELSE fs

\* lines 329, 331: st.success or st.warning
AddNotice(fs, platform, filename) ==
    IF FileKey(platform, filename) \notin Keys(fs) THEN "added" ELSE "duplicate"

\* A delete that drops the oldest entry, whatever the key
DelEntryOldest(fs, key) == Tail(fs)

\* line 343: del st.session_state.files[file_key]
DelEntry(fs, key) == SelectSeq(fs, LAMBDA e : e.key # key)

(***************************************************************************)
(* Inputs: the workbooks a user may upload                                 *)
(***************************************************************************)
FileNames == {"a.xlsx", "b.xlsx"}

NotAWorkbook == [ok |-> FALSE]

Sheet(rows) == [ok |-> TRUE, rows |-> rows]

tA1 == <<"A", "1">>
tB2 == <<"B", "2">>
t77 == <<"7", "7">>
tZZ == <<"Z", "Z">>
tPen == <<"P", "e", "n">>
tCap == <<"C", "a", "p">>
tMug == <<"M", "u", "g">>
tRed == <<"R", "e", "d">>
tInk == <<"I", "n", "k">>
tBag == <<"B", "a", "g">>
tToy == <<"T", "o", "y">>
tArt == <<"A", "r", "t">>
tAbc == <<"a", "b", "c">>
tHdr == <<"h", "d", "r">>

\* One item of a Shopee annotation, as the export writes it
ItemText(name, variant, qty, sku) ==
    LblNamaProduk \o name \o <<";">> \o LblNamaVariasi \o variant \o <<";">>
    \o LblJumlah \o qty \o <<";">> \o LblSku \o <<" ">> \o sku \o <<";">>

\* An annotation of two items behind the markers [1] and [2]
TwoItems(a, b) == <<"[", "1", "]", " ">> \o a \o <<" ", "[", "2", "]", " ">> \o b

ShopeeRow(cell) == [H |-> cell]

TokopediaRow(sku, name, qty) == [B |-> sku, C |-> name, E |-> qty]

TikTokRow(sku, name, variant, qty) == [G |-> sku, H |-> name, I |-> variant, J |-> qty]

\* The rows above the data: Shopee's header row, Tokopedia's three skipped
\* rows and header row, TikTok's two title rows.
ShopeeHead == <<ShopeeRow(StrCell(tHdr))>>

TokopediaHead ==
    [i \in 1..(TokopediaSkipRows + 1) |->
        TokopediaRow(StrCell(tHdr), StrCell(tHdr), StrCell(tHdr))]

TikTokHead ==
    [i \in 1..TikTokHeadRows |->
        TikTokRow(StrCell(tHdr), StrCell(tHdr), StrCell(tHdr), StrCell(tHdr))]

HeadRows(platform) ==
    CASE platform = "Shopee" -> ShopeeHead
      [] platform = "Tokopedia" -> TokopediaHead
      [] platform = "TikTok" -> TikTokHead

\* The workbooks of the session study: per platform, a file that is not a
\* workbook and two sheets.
ShopeeBooks ==
    { NotAWorkbook,
      Sheet(ShopeeHead \o
            <<ShopeeRow(StrCell(TwoItems(ItemText(tPen, tRed, <<"1">>, tB2),
                                         ItemText(tCap, tRed, <<"3">>, <<>>)))),
              ShopeeRow(NaN),
              ShopeeRow(StrCell(ItemText(tPen, tRed, <<"2">>, tA1)))>>),
      Sheet(ShopeeHead \o
            <<ShopeeRow(StrCell(ItemText(tMug, tRed, <<"1">>, tZZ))),
              ShopeeRow(StrCell(ItemText(tCap, tRed, <<"3">>, <<>>)))>>) }

TokopediaBooks ==
    { NotAWorkbook,
      Sheet(TokopediaHead \o
            <<TokopediaRow(StrCell(tB2 \o <<" ">>), StrCell(tInk), NumCell(1)),
              TokopediaRow(StrCell(tA1 \o <<".", "0">>), StrCell(tInk), NumCell(5)),
              TokopediaRow(StrCell(tZZ), StrCell(tBag), NumCell(4)),
              TokopediaRow(NaN, StrCell(tBag), NumCell(4))>>),
      Sheet(TokopediaHead \o
            <<TokopediaRow(StrCell(tA1), StrCell(tInk), NumCell(2)),
              TokopediaRow(StrCell(tZZ), NumCell(9), NumCell(1)),
              TokopediaRow(StrCell(tZZ), StrCell(tBag), NumCell(1))>>) }

TikTokBooks ==
    { NotAWorkbook,
      Sheet(TikTokHead \o
            <<TikTokRow(StrCell(<<"'">> \o tB2), StrCell(tToy), StrCell(tRed), NumCell(3)),
              TikTokRow(StrCell(tA1 \o <<" ">>), StrCell(tToy), StrCell(<<>>),
                        StrCell(<<"2">>)),
              TikTokRow(StrCell(<<>>), StrCell(tToy), StrCell(tRed), StrCell(tAbc))>>),
      Sheet(TikTokHead \o
            <<TikTokRow(StrCell(tZZ), StrCell(tArt), StrCell(tRed), NumCell(1)),
              TikTokRow(NumCell(77), StrCell(tArt), StrCell(<<>>), NumCell(1))>>) }

Books(platform) ==
    CASE platform = "Shopee" -> ShopeeBooks
      [] platform = "Tokopedia" -> TokopediaBooks
      [] platform = "TikTok" -> TikTokBooks

(***************************************************************************)
(* One script run per user interaction.  Each run of main() starts with    *)
(* ProductDatabase(); what an earlier run displayed is gone.               *)
(***************************************************************************)
\* parse_product_info has not been called
NotParsed == "not parsed"

\* The bookkeeping of a session in which nothing has been done yet: runs
\* counts the "Process All Files" runs, pending is what was done to the batch
\* since the latest of them, before is what had been done to it between the
\* run before the latest and the latest.
NoSession == [runs |-> "none", pending |-> "nothing", before |-> "nothing"]

NoResults ==
    /\ file_results' = <<>>
    /\ summary_df' = <<>>
    /\ invalid_summary' = <<>>
    /\ joined_valid_df' = <<>>
    /\ joined_invalid_df' = <<>>

\* lines 287, 19-26
LoadDatabase(ok) ==
    /\ database' = ProductDatabase(ok)
    /\ load_failed' = ~ok

Init ==
    /\ files = <<>>
    /\ \E ok \in BOOLEAN : database = ProductDatabase(ok) /\ load_failed = ~ok
    /\ clicked = "none"
    /\ notice = "none"
    /\ file_results = <<>>
    /\ summary_df = <<>>
    /\ invalid_summary = <<>>
    /\ joined_valid_df = <<>>
    /\ joined_invalid_df = <<>>
    /\ lines_A = <<>>
    /\ lines_B = <<>>
    /\ agg = <<>>
    /\ session = NoSession
    /\ order_text = <<>>
    /\ parsed_products = NotParsed

\* A run started by a widget other than a button (the platform select box,
\* the file uploader).
Rerun(ok) ==
    /\ LoadDatabase(ok)
    /\ clicked' = "none"
    /\ notice' = "none"
    /\ NoResults
    /\ UNCHANGED <<files, lines_A, lines_B, agg, order_text, parsed_products>>

\* lines 318-331: "Add File" with a platform selected and a file uploaded
AddFile(ok, platform, filename, bytes) ==
    /\ FileKey(platform, filename) \in Keys(files) \/ Len(files) < MaxFiles
    /\ LoadDatabase(ok)
    /\ files' = AddEntry(files, platform, filename, bytes)
    /\ notice' = AddNotice(files, platform, filename)
    /\ clicked' = "Add File"
    /\ NoResults
    /\ UNCHANGED <<lines_A, lines_B, agg, order_text, parsed_products>>

\* lines 342-344: "Remove" beside a file, then st.rerun()
RemoveFile(ok, key) ==
    /\ key \in Keys(files)
    /\ LoadDatabase(ok)
    /\ files' = DelEntry(files, key)
    /\ clicked' = "none"
    /\ notice' = "none"
    /\ NoResults
    /\ UNCHANGED <<lines_A, lines_B, agg, order_text, parsed_products>>

\* lines 507-509: "Clear All Files", then st.rerun()
ClearAll(ok) ==
    /\ files # <<>>
    /\ LoadDatabase(ok)
    /\ files' = <<>>
    /\ clicked' = "none"
    /\ notice' = "none"
    /\ NoResults
    /\ UNCHANGED <<lines_A, lines_B, agg, order_text, parsed_products>>

\* lines 347-501: "Process All Files"
ProcessAll(ok) ==
    /\ files # <<>>
    /\ LoadDatabase(ok)
    /\ clicked' = "Process All Files"
    /\ notice' = "none"
    /\ file_results' = FileResults(files, database')
    /\ summary_df' = SummaryOf(file_results')
    /\ invalid_summary' = InvalidSummaryOf(file_results')
    /\ joined_valid_df' = JoinedValidOf(files, file_results')
    /\ joined_invalid_df' = JoinedInvalidOf(files, file_results')
    /\ UNCHANGED <<files, lines_A, lines_B, agg, order_text, parsed_products>>

Next ==
    \/ \E ok \in BOOLEAN : Rerun(ok) /\ UNCHANGED session
    \/ \E ok \in BOOLEAN, platform \in Platforms, filename \in FileNames :
          \E bytes \in Books(platform) :
              AddFile(ok, platform, filename, bytes) /\ UNCHANGED session
    \/ \E ok \in BOOLEAN, key \in Keys(files) : RemoveFile(ok, key) /\ UNCHANGED session
    \/ \E ok \in BOOLEAN : ClearAll(ok) /\ UNCHANGED session
    \/ \E ok \in BOOLEAN : ProcessAll(ok) /\ UNCHANGED session

Spec == Init /\ [][Next]_vars

(***************************************************************************)
(* The per-file study: one uploaded file, its rows drawn from the cells    *)
(* below, processed by its platform's processor.                           *)
(***************************************************************************)
\* The sequences of at most n elements of S
SeqsUpTo(S, n) == UNION {[1..k -> S] : k \in 0..n}

ShopeeCells ==
    { NaN,
      StrCell(ItemText(tPen, tRed, <<"2">>, tA1)),
      StrCell(ItemText(tMug, tRed, <<"1">>, tZZ)),
      \* the second item has no variant name
      StrCell(TwoItems(ItemText(tPen, tRed, <<"1">>, tB2),
                       LblNamaProduk \o tCap \o <<";">> \o LblJumlah \o <<"3", ";">>)),
      \* no SKU reference at all
      StrCell(LblNamaProduk \o tCap \o <<";">> \o LblNamaVariasi \o tRed \o <<";">>
              \o LblJumlah \o <<"4", ";">>) }

TokopediaCells ==
    { TokopediaRow(b, c, e) :
        b \in {NaN, StrCell(<<" ">> \o tA1 \o <<".", "0", " ">>), StrCell(tZZ)},
        c \in {StrCell(tBag), NumCell(9)},
        e \in {NumCell(2), NumCell(-1), NaN} }

TikTokCells ==
    { TikTokRow(g, hi[1], hi[2], j) :
        g \in {StrCell(<<>>), StrCell(<<" ", "'">> \o tA1 \o <<"'", " ">>), StrCell(tZZ)},
        hi \in {<<StrCell(tToy), StrCell(tRed)>>, <<NumCell(5), StrCell(<<>>)>>},
        j \in {NumCell(3), NumCell(-2), StrCell(tAbc)} }

RowsOf(platform) ==
    CASE platform = "Shopee" -> {ShopeeRow(c) : c \in ShopeeCells}
      [] platform = "Tokopedia" -> TokopediaCells
      [] platform = "TikTok" -> TikTokCells

StudyBooks(platform) ==
    {NotAWorkbook}
    \cup {Sheet(HeadRows(platform) \o rows) : rows \in SeqsUpTo(RowsOf(platform), MaxRows)}

InitFile ==
    /\ \E platform \in Platforms : \E bytes \in StudyBooks(platform) :
          files = AddEntry(<<>>, platform, "a.xlsx", bytes)
    /\ \E ok \in BOOLEAN : database = ProductDatabase(ok) /\ load_failed = ~ok
    /\ clicked = "none"
    /\ notice = "none"
    /\ file_results = <<>>
    /\ summary_df = <<>>
    /\ invalid_summary = <<>>
    /\ joined_valid_df = <<>>
    /\ joined_invalid_df = <<>>
    /\ lines_A = <<>>
    /\ lines_B = <<>>
    /\ agg = <<>>
    /\ session = NoSession
    /\ order_text = <<>>
    /\ parsed_products = NotParsed

NextFile == \E ok \in BOOLEAN : ProcessAll(ok) /\ UNCHANGED session

SpecFile == InitFile /\ [][NextFile]_vars

(***************************************************************************)
(* The session study: the session actions over workbooks of one filename,  *)
(* one per platform, with the bookkeeping of what the user has done so far.*)
(***************************************************************************)
RunsFileNames == {"a.xlsx"}

RunsBooks(platform) == {bytes \in Books(platform) : bytes.ok}

\* line 347: one more "Process All Files" run
AfterProcess(s) ==
    [runs |-> IF s.runs = "none" THEN "one" ELSE "several",
     pending |-> "nothing",
     before |-> IF s.runs = "none" THEN "nothing" ELSE s.pending]

\* lines 324, 343, 508: the batch changed after a run
AfterBatchChange(s, what) ==
    IF s.runs = "none" THEN s ELSE [s EXCEPT !.pending = what]

\* The entry of the batch held under key
EntryOf(fs, key) == fs[CHOOSE i \in 1..Len(fs) : fs[i].key = key]

RunsRerun(ok) == Rerun(ok) /\ UNCHANGED session

RunsAddFile(ok, platform, filename, bytes) ==
    /\ AddFile(ok, platform, filename, bytes)
    /\ session' = IF files' = files THEN session ELSE AfterBatchChange(session, "added")

\* "removed" when the file removed gave valid lines with the catalog in use
RunsRemoveFile(ok, key) ==
    /\ RemoveFile(ok, key)
    /\ session' = AfterBatchChange(session,
                     IF FileResults(<<EntryOf(files, key)>>, database)[1].valid_df # <<>>
                     THEN "removed" ELSE "shrunk")

RunsClearAll(ok) == ClearAll(ok) /\ session' = AfterBatchChange(session, "cleared")

RunsProcessAll(ok) == ProcessAll(ok) /\ session' = AfterProcess(session)

NextRuns ==
    \/ \E ok \in BOOLEAN : RunsRerun(ok)
    \/ \E ok \in BOOLEAN, platform \in Platforms, filename \in RunsFileNames :
          \E bytes \in RunsBooks(platform) : RunsAddFile(ok, platform, filename, bytes)
    \/ \E ok \in BOOLEAN, key \in Keys(files) : RunsRemoveFile(ok, key)
    \/ \E ok \in BOOLEAN : RunsClearAll(ok)
    \/ \E ok \in BOOLEAN : RunsProcessAll(ok)

SpecRuns == Init /\ [][NextRuns]_vars

(***************************************************************************)
(* The parsing study: one annotation text of up to MaxItems items, each    *)
(* behind a marker or behind none, parsed by parse_product_info.           *)
(***************************************************************************)
ItemMarkers == {<<>>, <<"[", "1", "]">>, <<"[", "2", "]">>, <<"[", "1", "0", "]">>}

ItemTexts ==
    { ItemText(tPen, tRed, <<"2">>, tA1),
      \* no SKU reference
      LblNamaProduk \o tCap \o <<";">> \o LblNamaVariasi \o tRed \o <<";">>
          \o LblJumlah \o <<"4", ";">>,
      \* no variant name
      LblNamaProduk \o tMug \o <<";">> \o LblJumlah \o <<"3", ";">>,
      \* nothing but a blank
      <<" ">> }

RECURSIVE JoinItems(_)
JoinItems(parts) ==
    IF parts = <<>> THEN <<>>
    ELSE Head(parts)[1] \o <<" ">> \o Head(parts)[2] \o <<" ">> \o JoinItems(Tail(parts))

OrderTexts == {JoinItems(parts) : parts \in SeqsUpTo(ItemMarkers \X ItemTexts, MaxItems)}

InitParse ==
    /\ order_text \in OrderTexts
    /\ parsed_products = NotParsed
    /\ files = <<>>
    /\ database = ProductDatabase(TRUE)
    /\ load_failed = FALSE
    /\ clicked = "none"
    /\ notice = "none"
    /\ file_results = <<>>
    /\ summary_df = <<>>
    /\ invalid_summary = <<>>
    /\ joined_valid_df = <<>>
    /\ joined_invalid_df = <<>>
    /\ lines_A = <<>>
    /\ lines_B = <<>>
    /\ agg = <<>>
    /\ session = NoSession

\* line 85: self.parse_product_info(order_text)
Parse ==
    /\ parsed_products = NotParsed
    /\ parsed_products' = parse_product_info(order_text)
    /\ UNCHANGED <<files, database, load_failed, clicked, notice, file_results,
                   summary_df, invalid_summary, joined_valid_df, joined_invalid_df,
                   lines_A, lines_B, agg, session, order_text>>

NextParse == Parse

SpecParse == InitParse /\ [][NextParse]_vars

(***************************************************************************)
(* The aggregation study: two lists of valid rows, aggregated at once and  *)
(* aggregated per list and then merged.                                    *)
(***************************************************************************)
\* Valid rows as the processors build them against the loaded catalog
ValidRows ==
    { [Kode_SKU |-> sku,
       Nama_Produk |-> get_product_name(ProductDatabase(TRUE), sku),
       Jumlah |-> NumCell(q)] :
        sku \in {tA1, tB2}, q \in {1, 2} }

\* aggregate_valid of one list: group, sum, sort by SKU (lines 409-411 on one frame)
AggregateValid(lines) == MergeBatch(<<lines>>)

\* lines 375-377 per list, then lines 409-411 over the per-list summaries
PerFileThenMerge(a, b) ==
    MergeBatch((IF a # <<>> THEN <<GroupBySum(a)>> ELSE <<>>)
               \o (IF b # <<>> THEN <<GroupBySum(b)>> ELSE <<>>))

InitAgg ==
    /\ lines_A \in SeqsUpTo(ValidRows, MaxRows)
    /\ lines_B \in SeqsUpTo(ValidRows, MaxRows)
    /\ agg = <<>>
    /\ files = <<>>
    /\ database = ProductDatabase(TRUE)
    /\ load_failed = FALSE
    /\ clicked = "none"
    /\ notice = "none"
    /\ file_results = <<>>
    /\ summary_df = <<>>
    /\ invalid_summary = <<>>
    /\ joined_valid_df = <<>>
    /\ joined_invalid_df = <<>>
    /\ session = NoSession
    /\ order_text = <<>>
    /\ parsed_products = NotParsed

Aggregate ==
    /\ agg = <<>>
    /\ agg' = [direct |-> AggregateValid(lines_A \o lines_B),
               merged |-> PerFileThenMerge(lines_A, lines_B),
               swapped |-> PerFileThenMerge(lines_B, lines_A)]
    /\ UNCHANGED <<files, database, load_failed, clicked, notice, file_results,
                   summary_df, invalid_summary, joined_valid_df, joined_invalid_df,
                   lines_A, lines_B, session, order_text, parsed_products>>

NextAgg == Aggregate

SpecAgg == InitAgg /\ [][NextAgg]_vars

(***************************************************************************)
(* Properties                                                              *)
(***************************************************************************)
Processed == clicked = "Process All Files"

\* The valid rows of every file of the run, in batch order
AllValidLines == Concat([i \in 1..Len(file_results) |-> file_results[i].valid_df])

\* The invalid rows of every file of the run, in batch order
AllInvalidLines == Concat([i \in 1..Len(file_results) |-> file_results[i].invalid_df])

PairOf(r) == <<r.Kode_SKU, r.Nama_Produk>>

\* The total quantity of the rows of lines whose pair is pair, added up
\* position by position
RECURSIVE TotalOfPair(_, _, _)
TotalOfPair(lines, pair, n) ==
    IF n = 0 THEN 0
    ELSE TotalOfPair(lines, pair, n - 1)
         + (IF PairOf(lines[n]) = pair /\ IsNum(lines[n].Jumlah)
            THEN lines[n].Jumlah.v ELSE 0)

\* C1: the summary of a run has exactly one row per distinct (SKU, catalog
\* name) pair among the valid lines of the batch, the row's quantity is the
\* sum of the quantities of all valid lines with that pair across every
\* file, and the rows ascend by SKU.
C1_SummaryOneRowPerPairSummed ==
    Processed =>
        LET lines == AllValidLines
            pairs == {PairOf(lines[n]) : n \in 1..Len(lines)}
        IN  /\ {PairOf(summary_df[i]) : i \in 1..Len(summary_df)} = pairs
            /\ Len(summary_df) = Cardinality(pairs)
            /\ \A i \in 1..Len(summary_df) :
                   summary_df[i].Jumlah
                       = NumCell(TotalOfPair(lines, PairOf(summary_df[i]), Len(lines)))
            /\ \A i \in 1..Len(summary_df) : \A j \in (i + 1)..Len(summary_df) :
                   ~StrLess(summary_df[j].Kode_SKU, summary_df[i].Kode_SKU)

\* A run in which two files hold valid lines of one SKU and the summary has
\* several rows.
C1_Witness ==
    /\ Processed
    /\ Len(summary_df) >= 2
    /\ \E i \in 1..Len(file_results) : \E j \in (i + 1)..Len(file_results) :
          \E a \in 1..Len(file_results[i].valid_df) :
          \E b \in 1..Len(file_results[j].valid_df) :
              PairOf(file_results[i].valid_df[a]) = PairOf(file_results[j].valid_df[b])

\* The raw order lines a processor extracts from a file, in one shape: the
\* cleaned SKU, and the name and quantity the file gives.
RawView(entry) ==
    CASE entry.platform = "Shopee" ->
           LET raw == ShopeeRawLines(entry.file)
           IN  [n \in 1..Len(raw) |->
                   [sku |-> raw[n].sku, name |-> StrCell(raw[n].nama_produk),
                    qty |-> NumCell(raw[n].jumlah)]]
      [] entry.platform = "Tokopedia" ->
           LET raw == TokopediaRawLines(entry.file)
           IN  [n \in 1..Len(raw) |->
                   [sku |-> raw[n].SKU, name |-> raw[n].Nama_Produk,
                    qty |-> raw[n].Jumlah]]
      [] entry.platform = "TikTok" ->
           LET raw == TikTokRawLines(entry.file)
           IN  [n \in 1..Len(raw) |->
                   [sku |-> raw[n].SKU, name |-> raw[n].Nama_Produk,
                    qty |-> raw[n].Jumlah]]

\* The bag of the elements of a sequence
BagOfSeq(q) ==
    [x \in {q[i] : i \in 1..Len(q)} |-> Cardinality({i \in 1..Len(q) : q[i] = x})]

IsKnownSku(sku) == sku # <<>> /\ sku \in DOMAIN database

\* C2: in each processor every extracted raw order line becomes exactly one
\* classified record: Valid, carrying the SKU and the catalog's name for it,
\* when its cleaned SKU is a catalog key; Invalid, carrying the file's
\* product name and the quantity but no SKU, when the SKU is empty or is
\* not a catalog key.
C2_EachLineClassifiedOnce ==
    Processed =>
        \A i \in 1..Len(files) :
            ~file_results[i].error =>
                LET raw == RawView(files[i])
                    known == SelectSeq(raw, LAMBDA r : IsKnownSku(r.sku))
                    other == SelectSeq(raw, LAMBDA r : ~IsKnownSku(r.sku))
                    valid == file_results[i].valid_df
                    invalid == file_results[i].invalid_df
                IN  /\ Len(valid) + Len(invalid) = Len(raw)
                    /\ BagOfSeq(valid)
                         = BagOfSeq([n \in 1..Len(known) |->
                                       [Kode_SKU |-> known[n].sku,
                                        Nama_Produk |-> database[known[n].sku],
                                        Jumlah |-> known[n].qty]])
                    /\ BagOfSeq([n \in 1..Len(invalid) |->
                                   <<invalid[n].Nama_Produk, invalid[n].Jumlah>>])
                         = BagOfSeq([n \in 1..Len(other) |-> <<other[n].name, other[n].qty>>])
                    /\ \A n \in 1..Len(invalid) : "Kode_SKU" \notin DOMAIN invalid[n]

\* A file processed into a valid line, named by the catalog and not by the
\* file, and an invalid line whose SKU is empty.
C2_Witness ==
    /\ Processed
    /\ Len(files) = 1
    /\ ~file_results[1].error
    /\ \E n \in 1..Len(RawView(files[1])) :
          /\ IsKnownSku(RawView(files[1])[n].sku)
          /\ RawView(files[1])[n].name # StrCell(database[RawView(files[1])[n].sku])
    /\ \E n \in 1..Len(RawView(files[1])) : RawView(files[1])[n].sku = <<>>
    /\ file_results[1].valid_df # <<>>
    /\ file_results[1].invalid_df # <<>>

\* The batch holds an entry of this platform and filename
Holds(fs, platform, filename) ==
    \E i \in 1..Len(fs) : fs[i].platform = platform /\ fs[i].filename = filename

NoTwoAlike(fs) ==
    \A i \in 1..Len(fs) : \A j \in (i + 1)..Len(fs) :
        ~(fs[i].platform = fs[j].platform /\ fs[i].filename = fs[j].filename)

\* C3: "Add File" of a platform and filename the batch already holds leaves
\* the batch, stored bytes included, unchanged; of a platform and filename it
\* does not hold (the same filename under another platform included) appends
\* one entry with the uploaded bytes; and the batch never holds two entries
\* of the same platform and filename.
C3_DuplicateAddRejected ==
    [][ /\ NoTwoAlike(files')
        /\ \A ok \in BOOLEAN, platform \in Platforms, filename \in FileNames :
             \A bytes \in Books(platform) :
                AddFile(ok, platform, filename, bytes) =>
                    IF Holds(files, platform, filename)
                    THEN files' = files
                    ELSE /\ Len(files') = Len(files) + 1
                         /\ SubSeq(files', 1, Len(files)) = files
                         /\ files'[Len(files')].platform = platform
                         /\ files'[Len(files')].filename = filename
                         /\ files'[Len(files')].file = bytes ]_vars

\* A duplicate add was just refused while the batch holds one filename under
\* two platforms.
C3_Witness ==
    /\ notice = "duplicate"
    /\ \E i \in 1..Len(files) : \E j \in 1..Len(files) :
          files[i].filename = files[j].filename /\ files[i].platform # files[j].platform

\* The files of the run whose processor reported an error
FailedAt == {i \in 1..Len(file_results) : file_results[i].error}

\* The batch without the files that failed
GoodFiles ==
    LET keep == {i \in 1..Len(files) : i \notin FailedAt}
        nth(k) == CHOOSE i \in keep : Cardinality({j \in keep : j < i}) = k - 1
    IN  [k \in 1..Cardinality(keep) |-> files[nth(k)]]

\* C4: a file whose processor raises, at any point, contributes no valid and
\* no invalid record, and the run shows what it would show for the batch
\* without that file.
C4_BadFileIsolated ==
    Processed =>
        /\ \A i \in FailedAt :
              file_results[i].valid_df = <<>> /\ file_results[i].invalid_df = <<>>
        /\ summary_df = SummaryOf(FileResults(GoodFiles, database))
        /\ invalid_summary = InvalidSummaryOf(FileResults(GoodFiles, database))
        /\ joined_valid_df = JoinedValidOf(GoodFiles, FileResults(GoodFiles, database))
        /\ joined_invalid_df = JoinedInvalidOf(GoodFiles, FileResults(GoodFiles, database))

\* A run over a sheet that raised after rows with a known SKU were read, and
\* another file whose valid lines reached the summary.
C4_Witness ==
    /\ Processed
    /\ \E i \in FailedAt :
          /\ files[i].file.ok
          /\ \E n \in 1..Len(RawView(files[i])) : IsKnownSku(RawView(files[i])[n].sku)
    /\ \E j \in 1..Len(files) : file_results[j].valid_df # <<>>
    /\ summary_df # <<>>

\* C5: when loading the catalog fails the run goes on with an empty catalog,
\* and with it every order line of every file processed is invalid and the
\* valid summary is empty.
C5_FailedLoadEmptyCatalog ==
    load_failed =>
        /\ DOMAIN database = {}
        /\ Processed =>
              /\ summary_df = <<>>
              /\ joined_valid_df = <<>>
              /\ \A i \in 1..Len(files) :
                    /\ file_results[i].valid_df = <<>>
                    /\ ~file_results[i].error =>
                          Len(file_results[i].invalid_df) = Len(RawView(files[i]))

\* A run after a failed load over a file with a line whose SKU the hosted
\* catalog knows.
C5_Witness ==
    /\ load_failed
    /\ Processed
    /\ \E i \in 1..Len(files) :
          /\ ~file_results[i].error
          /\ \E n \in 1..Len(RawView(files[i])) :
                RawView(files[i])[n].sku \in DOMAIN ProductDatabase(TRUE)

\* C6: grouping by (SKU, name) and summing over A ++ B gives the summary
\* that aggregating A and B separately and then grouping and summing the two
\* aggregates gives, whichever of A and B comes first.
C6_ReaggregationIdempotent ==
    agg # <<>> => agg.direct = agg.merged /\ agg.merged = agg.swapped

\* Both lists hold a row of one pair and one list holds it twice, so a
\* per-list total is merged with another total.
C6_Witness ==
    /\ agg # <<>>
    /\ \E i \in 1..Len(lines_A) : \E j \in (i + 1)..Len(lines_A) :
          /\ PairOf(lines_A[i]) = PairOf(lines_A[j])
          /\ \E k \in 1..Len(lines_B) : PairOf(lines_B[k]) = PairOf(lines_A[i])
    /\ Len(agg.direct) < Len(lines_A) + Len(lines_B)

\* C7 as claimed: every classified line of the three processors carries a
\* quantity that is a non-negative integer.
C7_QuantityNonNegativeInteger ==
    Processed =>
        \A i \in 1..Len(file_results) :
            /\ \A n \in 1..Len(file_results[i].valid_df) :
                  /\ IsNum(file_results[i].valid_df[n].Jumlah)
                  /\ file_results[i].valid_df[n].Jumlah.v >= 0
            /\ \A n \in 1..Len(file_results[i].invalid_df) :
                  /\ IsNum(file_results[i].invalid_df[n].Jumlah)
                  /\ file_results[i].invalid_df[n].Jumlah.v >= 0

\* The rows ascend by product name (text names compared as Python does)
AscendingByName(rows) ==
    \A i \in 1..Len(rows) : \A j \in (i + 1)..Len(rows) :
        (IsStr(rows[i].Nama_Produk) /\ IsStr(rows[j].Nama_Produk))
            => ~StrLess(rows[j].Nama_Produk.s, rows[i].Nama_Produk.s)

\* C8 as claimed: the invalid summary of a run over several files ascends by
\* product name over the whole merged sequence.
C8_InvalidSummarySortedOverall ==
    Processed => AscendingByName(invalid_summary)

\* C9 as claimed: the invalid summary holds exactly one entry for each
\* invalid line of each file parsed, also in a run with no valid line.
C9_InvalidSummaryKeepsEveryLine ==
    Processed => BagOfSeq(invalid_summary) = BagOfSeq(AllInvalidLines)

\* C10 as claimed: the catalog loaded at the start of the session is never
\* replaced afterwards.
C10_CatalogNeverReconstructed == [][database' = database]_vars

\* C11: after any sequence of add, remove, clear and process, the summaries
\* shown by a "Process All Files" run are those of the files in the batch at
\* that run alone: one summary row per pair of their valid lines with the
\* total of those lines only, and the invalid lines of those files only.
C11_SummariesRebuiltEachRun ==
    Processed =>
        LET fresh == FileResults(files, database)
            lines == Concat([i \in 1..Len(fresh) |-> fresh[i].valid_df])
            others == Concat([i \in 1..Len(fresh) |-> fresh[i].invalid_df])
            pairs == {PairOf(lines[n]) : n \in 1..Len(lines)}
        IN  /\ file_results = fresh
            /\ {PairOf(summary_df[i]) : i \in 1..Len(summary_df)} = pairs
            /\ Len(summary_df) = Cardinality(pairs)
            /\ \A i \in 1..Len(summary_df) :
                   summary_df[i].Jumlah
                       = NumCell(TotalOfPair(lines, PairOf(summary_df[i]), Len(lines)))
            /\ invalid_summary = IF summary_df # <<>> THEN others ELSE <<>>

\* A run that follows an earlier run and the removal of a file that had
\* valid lines, and still shows a summary.
C11_Witness ==
    /\ Processed
    /\ session.runs = "several"
    /\ session.before = "removed"
    /\ summary_df # <<>>

\* A match of \[\d+\] somewhere in the text
HasMarker(text) == \E i \in 1..Len(text) : MarkerEnd(text, i) # 0

\* The item descriptions of a text as the parser's description gives them:
\* the trimmed non-empty pieces around the markers when a marker appears,
\* else the whole text
SegmentsOf(text) ==
    IF HasMarker(text) THEN StripNonEmpty(SplitMarkers(text)) ELSE <<text>>

\* Product name, variant name and quantity all match in the segment
WellFormed(segment) ==
    /\ SearchField(segment, LblNamaProduk).found
    /\ SearchField(segment, LblNamaVariasi).found
    /\ SearchJumlah(segment).found

\* C12 as claimed: a text in which a bracketed numeric marker appears is
\* split on the markers, every trimmed non-empty segment is an item and the
\* whole text is the one item otherwise; the lines returned are those of the
\* well-formed segments, in order, so two well-formed segments give two lines.
C12_ShopeeSplitsOnMarkers ==
    parsed_products # NotParsed =>
        LET segments == SegmentsOf(order_text)
            good == SelectSeq(segments, WellFormed)
        IN  /\ Len(parsed_products) = Len(good)
            /\ \A n \in 1..Len(good) : <<parsed_products[n]>> = ParseItem(good[n])

\* C13: "Process All Files" leaves every entry of the batch as it is, "Remove"
\* deletes the entry of its key and leaves the others as they are and in
\* their order, "Clear All Files" leaves the batch empty, and no step other
\* than an add that was accepted, a remove or a clear changes the batch.
C13_BatchChangedOnlyByAddRemoveClear ==
    [][ /\ \A ok \in BOOLEAN : ProcessAll(ok) => files' = files
        /\ \A ok \in BOOLEAN, key \in Keys(files) :
               RemoveFile(ok, key) =>
                   \E i \in 1..Len(files) :
                       /\ files[i].key = key
                       /\ files' = SubSeq(files, 1, i - 1)
                                     \o SubSeq(files, i + 1, Len(files))
        /\ \A ok \in BOOLEAN : ClearAll(ok) => files' = <<>>
        /\ files' # files =>
               \/ clicked' = "Add File" /\ notice' = "added"
                     /\ SubSeq(files', 1, Len(files)) = files
                     /\ Len(files') = Len(files) + 1
               \/ \E ok \in BOOLEAN, key \in Keys(files) : RemoveFile(ok, key)
               \/ \E ok \in BOOLEAN : ClearAll(ok) ]_vars

\* After several "Process All Files" runs a file was removed and the batch
\* still holds another.
C13_Witness ==
    /\ session.runs = "several"
    /\ session.pending = "removed"
    /\ files # <<>>

====
